---- MODULE Spec2Model ----
(***************************************************************************)
(* fsk (Fast Simple Knowledge): the storage layer of the note tool.        *)
(*                                                                         *)
(* The state is the file tree the program works on.  A string is a         *)
(* sequence of one-character strings, a path is a sequence of component    *)
(* names counted from the filesystem root, `dirs` is the set of paths that *)
(* are directories and `files` maps every path that is a regular file to   *)
(* its content.  Each command of src/main.rs is one action.                *)
(***************************************************************************)
EXTENDS Naturals, Sequences, FiniteSets

VARIABLES dirs, files, op, pre, ret, stack, orig, calls

vars == <<dirs, files, op, pre, ret, stack, orig, calls>>

\* ------------------------------------------------------------------ bounds
\* Most regular files the tree may hold (the editor stops creating beyond it).
MaxFiles == 3
\* Longest path, in components, the host accepts (PATH_MAX scaled down).
MaxPathLen == 4
\* Most export/import commands in one run.
MaxCalls == 2

\* ----------------------------------------------------------------- strings
EmptyStr == << >>

SLASH == "/"

MD == <<".", "m", "d">>

\* The byte value of a character (String ordering in Rust is by bytes).
Byte(c) ==
  CASE c = "\n" -> 10
    [] c = "\r" -> 13
    [] c = " " -> 32
    [] c = "'" -> 39
    [] c = "." -> 46
    [] c = "/" -> 47
    [] c = "A" -> 65
    [] c = "B" -> 66
    [] c = "a" -> 97
    [] c = "b" -> 98
    [] c = "d" -> 100
    [] c = "m" -> 109
    [] c = "o" -> 111
    [] c = "x" -> 120
    [] OTHER -> 127

\* str::to_lowercase, character by character.
LowerChar(c) == IF c = "A" THEN "a" ELSE IF c = "B" THEN "b" ELSE c

to_lowercase(s) == [i \in 1..Len(s) |-> LowerChar(s[i])]

\* str::contains: kw occurs in s as a contiguous substring.
contains(s, kw) ==
  \E i \in 0..Len(s) :
    /\ i + Len(kw) <= Len(s)
    /\ \A j \in 1..Len(kw) : s[i + j] = kw[j]

IsSpace(c) == c \in {" ", "\n", "\r"}

\* str::trim: leading and trailing whitespace removed.
RECURSIVE trim_start(_)
trim_start(s) ==
  IF s # << >> /\ IsSpace(Head(s)) THEN trim_start(Tail(s)) ELSE s

RECURSIVE trim_end(_)
trim_end(s) ==
  IF s # << >> /\ IsSpace(s[Len(s)]) THEN trim_end(SubSeq(s, 1, Len(s) - 1)) ELSE s

trim(s) == trim_end(trim_start(s))

\* s cut at every occurrence of the character sep (empty pieces kept).
RECURSIVE Split(_, _)
Split(s, sep) ==
  IF \A i \in 1..Len(s) : s[i] # sep THEN << s >>
  ELSE LET k == CHOOSE i \in 1..Len(s) : s[i] = sep /\ \A j \in 1..(i - 1) : s[j] # sep
       IN << SubSeq(s, 1, k - 1) >> \o Split(SubSeq(s, k + 1, Len(s)), sep)

StripCR(l) == IF l # << >> /\ l[Len(l)] = "\r" THEN SubSeq(l, 1, Len(l) - 1) ELSE l

\* str::lines: cut at "\n", a final empty piece dropped, a trailing "\r" removed.
lines(s) ==
  LET parts == Split(s, "\n")
      kept == IF parts[Len(parts)] = << >> THEN SubSeq(parts, 1, Len(parts) - 1) ELSE parts
  IN [i \in 1..Len(kept) |-> StripCR(kept[i])]

\* Lexicographic order of strings by bytes (Ord for String).
RECURSIVE StrLess(_, _)
StrLess(s, t) ==
  IF t = << >> THEN FALSE
  ELSE IF s = << >> THEN TRUE
  ELSE IF Byte(Head(s)) # Byte(Head(t)) THEN Byte(Head(s)) < Byte(Head(t))
  ELSE StrLess(Tail(s), Tail(t))

\* ------------------------------------------------------------------- paths
\* Path::components of a string: the pieces between separators, empty pieces
\* (doubled or trailing separators) dropped.
Components(s) == SelectSeq(Split(s, SLASH), LAMBDA c : c # << >>)

\* PathBuf::join: an absolute argument replaces the path, a relative one extends it.
join(p, s) == IF s # << >> /\ Head(s) = SLASH THEN Components(s) ELSE p \o Components(s)

\* Path::parent (<< >> is the root, which has none; callers test Len first).
parent(p) == SubSeq(p, 1, Len(p) - 1)

IsPrefix(p, q) == Len(p) <= Len(q) /\ SubSeq(q, 1, Len(p)) = p

Prefixes(p) == {SubSeq(p, 1, n) : n \in 0..Len(p)}

\* Path::extension of a file name: the part after the last ".", none when the
\* name has no "." or its only "." is the first character.
HasExtension(name) == \E i \in 2..Len(name) : name[i] = "."

LastDot(name) == CHOOSE i \in 2..Len(name) : name[i] = "." /\ \A j \in (i + 1)..Len(name) : name[j] # "."

extension(name) == IF HasExtension(name) THEN SubSeq(name, LastDot(name) + 1, Len(name)) ELSE << >>

is_md(name) == HasExtension(name) /\ extension(name) = <<"m", "d">>

\* Path::with_extension(""): the name without its extension.
with_extension_empty(name) == IF HasExtension(name) THEN SubSeq(name, 1, LastDot(name) - 1) ELSE name

\* Path::to_string_lossy of a relative path: the components joined by "/".
RECURSIVE to_string(_)
to_string(p) ==
  IF p = << >> THEN << >>
  ELSE IF Len(p) = 1 THEN p[1]
  ELSE p[1] \o <<SLASH>> \o to_string(Tail(p))

\* The database directory: $HOME/.fsk/db, one component here.
db_path == << <<"d", "b">> >>

\* storage::resolve_path
resolve_path(title) == IF title = << >> THEN db_path ELSE join(db_path, title \o MD)

\* --------------------------------------------------------------- file tree
exists(d, f, p) == p \in d \/ p \in DOMAIN f

is_dir(d, p) == p \in d

is_file(f, p) == p \in DOMAIN f

\* The entries of a directory (fs::read_dir), as a set of full paths.
read_dir(d, f, dir) == {p \in d \cup DOMAIN f : Len(p) = Len(dir) + 1 /\ IsPrefix(dir, p)}

\* fs::create_dir_all: fails when a component of the path is a regular file
\* or the path is longer than the host accepts.
create_dir_all_ok(f, p) == Len(p) <= MaxPathLen /\ \A q \in Prefixes(p) : q \notin DOMAIN f

create_dir_all(d, p) == d \cup Prefixes(p)

Restrict(f, S) == [p \in S |-> f[p]]

\* fs::remove_dir_all: the directory and everything below it.
remove_dir_all_dirs(d, p) == {q \in d : ~IsPrefix(p, q)}

remove_dir_all_files(f, p) == Restrict(f, {q \in DOMAIN f : ~IsPrefix(p, q)})

Snapshot == [dirs |-> dirs, files |-> files]

NoRet == [ok |-> TRUE, kind |-> "", msg |-> << >>, val |-> << >>, raw |-> << >>, reads |-> {}]

OkRet == [NoRet EXCEPT !.ok = TRUE]

ErrRet(kind, msg) == [NoRet EXCEPT !.ok = FALSE, !.kind = kind, !.msg = msg]

OsError == ErrRet("Os", << >>)

\* ------------------------------------------------------------------ inputs
\* Title components, and the titles the dispatcher passes: the empty title,
\* notes at the top, two notes in one folder, and a note two folders deep
\* whose folder a/B has the name of the note a/B.
Comp == {<<"a">>, <<"B">>}

Titles ==
  { EmptyStr,
    <<"a">>,
    <<"B">>,
    <<"a", "/", "a">>,
    <<"a", "/", "B">>,
    <<"a", "/", "B", "/", "a">> }

\* File contents: readable text, or bytes that are not valid UTF-8.
Text(s) == [ok |-> TRUE, text |-> s]

Corrupt == [ok |-> FALSE, text |-> << >>]

Contents ==
  { Text(<<"x", "\n", " ", "a", "B", " ", "\n", "b">>),
    Text(<<"b", "\n">>),
    Corrupt }

\* What the external editor may leave in the file it was given.
Saved == { Text(<<"b", "\n">>), Corrupt }

\* ------------------------------------------------------------------ remove
\* A cleanup that forgets to prune.
PruneNever(d, f, dir) == d

\* An error message that does not name the title.
NotFoundMsgNoTitle(title) == <<"n", "o", "t", " ", "f", "o", "u", "n", "d">>

\* The message of remove's NotFound error:
\* format!("Note or folder '{}' not found", title).
NotFoundMsg(title) ==
  <<"N", "o", "t", "e", " ", "o", "r", " ", "f", "o", "l", "d", "e", "r", " ", "'">>
    \o title \o <<"'", " ", "n", "o", "t", " ", "f", "o", "u", "n", "d">>

\* The cleanup loop of remove: from `dir` upward, delete each empty directory,
\* stop at the database directory or at the first directory that is not empty.
RECURSIVE Prune(_, _, _)
Prune(d, f, dir) ==
  IF dir = db_path \/ Len(dir) = 0 THEN d
  ELSE IF read_dir(d, f, dir) = {} THEN Prune(d \ {dir}, f, parent(dir))
  ELSE d

\* storage::remove
remove(title) ==
  LET path_with_ext == join(db_path, title \o MD)
      path_as_dir == join(db_path, title)
  IN /\ op' = [name |-> "remove", a |-> title, b |-> << >>]
     /\ pre' = Snapshot
     /\ UNCHANGED <<stack, orig, calls>>
     /\ \/ /\ is_file(files, path_with_ext)
           /\ files' = Restrict(files, DOMAIN files \ {path_with_ext})
           /\ dirs' = Prune(dirs, files', parent(path_with_ext))
           /\ ret' = OkRet
        \/ /\ ~is_file(files, path_with_ext)
           /\ is_dir(dirs, path_as_dir)
           /\ dirs' = remove_dir_all_dirs(dirs, path_as_dir)
           /\ files' = remove_dir_all_files(files, path_as_dir)
           /\ ret' = OkRet
        \/ /\ ~is_file(files, path_with_ext)
           /\ ~is_dir(dirs, path_as_dir)
           /\ ret' = ErrRet("NotFound", NotFoundMsg(title))
           /\ UNCHANGED <<dirs, files>>

\* ------------------------------------------------------------------ rename
\* fs::rename of path_from to path_to on the tree (d, f): whether it succeeds.
fs_rename_ok(d, f, path_from, path_to) ==
  /\ exists(d, f, path_from)
  /\ Len(path_to) > 0
  /\ is_dir(d, parent(path_to))
  /\ \/ is_file(f, path_from) /\ ~is_dir(d, path_to)
     \/ is_dir(d, path_from) /\ path_from = path_to

\* A rename that copies the note and leaves the source in place.
fs_rename_files_keep(f, path_from, path_to) ==
  IF path_from \notin DOMAIN f THEN f
  ELSE [p \in DOMAIN f \cup {path_to} |-> IF p = path_to THEN f[path_from] ELSE f[p]]

\* The files after a successful fs::rename of a regular file.
fs_rename_files(f, path_from, path_to) ==
  IF path_from = path_to \/ path_from \notin DOMAIN f THEN f
  ELSE [p \in (DOMAIN f \ {path_from}) \cup {path_to} |->
          IF p = path_to THEN f[path_from] ELSE f[p]]

\* storage::rename
rename(from, to) ==
  LET path_from == resolve_path(from)
      path_to == resolve_path(to)
      par == parent(path_to)
      need == Len(path_to) > 0 /\ ~exists(dirs, files, par)
  IN /\ op' = [name |-> "rename", a |-> from, b |-> to]
     /\ pre' = Snapshot
     /\ UNCHANGED <<stack, orig, calls>>
     /\ \/ /\ need
           /\ ~create_dir_all_ok(files, par)
           /\ ret' = OsError
           /\ UNCHANGED <<dirs, files>>
        \/ /\ need => create_dir_all_ok(files, par)
           /\ LET d1 == IF need THEN create_dir_all(dirs, par) ELSE dirs
              IN /\ dirs' = d1
                 /\ IF fs_rename_ok(d1, files, path_from, path_to)
                    THEN files' = fs_rename_files(files, path_from, path_to) /\ ret' = OkRet
                    ELSE files' = files /\ ret' = OsError

\* ------------------------------------------------------------------ editor
\* What the external editor does: it saves a content at the path it was given
\* and exits 0, or it saves nothing (it failed to start, or the user quit).
EditorOutcomes ==
  {[save |-> TRUE, content |-> c] : c \in Saved} \cup {[save |-> FALSE, content |-> Corrupt]}

\* editor::editor, with the outcome of the external program.
editor(title, saved) ==
  LET full_path == resolve_path(title)
      par == parent(full_path)
      need == ~exists(dirs, files, par)
      d1 == IF need /\ create_dir_all_ok(files, par) THEN create_dir_all(dirs, par) ELSE dirs
      can_save == is_dir(d1, par) /\ ~is_dir(d1, full_path)
                    /\ (is_file(files, full_path) \/ Cardinality(DOMAIN files) < MaxFiles)
  IN /\ op' = [name |-> "editor", a |-> title, b |-> << >>]
     /\ pre' = Snapshot
     /\ ret' = NoRet
     /\ UNCHANGED <<stack, orig, calls>>
     /\ dirs' = d1
     /\ IF saved.save /\ can_save
        THEN files' = [p \in DOMAIN files \cup {full_path} |->
                         IF p = full_path THEN saved.content ELSE files[p]]
        ELSE files' = files

\* ------------------------------------------------------- the note commands
NoOp == [name |-> "", a |-> << >>, b |-> << >>]

NoTree == [set |-> FALSE, dest |-> << >>, tree |-> [dirs |-> {}, files |-> {}]]

EmptyFiles == [p \in {} |-> Corrupt]

\* The database directory exists and is empty.
Init ==
  /\ dirs = Prefixes(db_path)
  /\ files = EmptyFiles
  /\ op = NoOp
  /\ pre = [dirs |-> dirs, files |-> files]
  /\ ret = NoRet
  /\ stack = << >>
  /\ orig = NoTree
  /\ calls = 0

Next ==
  \/ \E title \in Titles, saved \in EditorOutcomes : editor(title, saved)
  \/ \E title \in Titles : remove(title)
  \/ \E from \in Titles, to \in Titles : rename(from, to)

Spec == Init /\ [][Next]_vars

\* -------------------------------------------------------------------- list
\* The title of a file below the database directory: the path relative to
\* it (strip_prefix), the extension removed, as a string.
title_of(path) ==
  LET rel == SubSeq(path, Len(db_path) + 1, Len(path))
      stem == with_extension_empty(rel[Len(rel)])
  IN to_string(SubSeq(rel, 1, Len(rel) - 1) \o << stem >>)

\* visit_dirs: every sequence it may append to acc, one for each order in
\* which read_dir may enumerate the entries of each directory.
RECURSIVE visit_dirs(_, _, _), visit_entries(_, _, _)
visit_dirs(d, f, dir) == visit_entries(d, f, read_dir(d, f, dir))

visit_entries(d, f, todo) ==
  IF todo = {} THEN {<< >>}
  ELSE UNION { LET here == IF is_dir(d, e) THEN visit_dirs(d, f, e)
                           ELSE IF is_md(e[Len(e)]) THEN {<< title_of(e) >>}
                           ELSE {<< >>}
               IN {h \o t : h \in here, t \in visit_entries(d, f, todo \ {e})}
             : e \in todo }

\* A list that returns the titles in enumeration order.
unsorted(acc) == acc

RECURSIVE insert(_, _)
insert(x, sorted) ==
  IF sorted = << >> THEN << x >>
  ELSE IF StrLess(x, Head(sorted)) THEN << x >> \o sorted
  ELSE << Head(sorted) >> \o insert(x, Tail(sorted))

\* Vec<String>::sort: ascending by bytes.
RECURSIVE sort(_)
sort(acc) == IF acc = << >> THEN << >> ELSE insert(Head(acc), sort(Tail(acc)))

None == [some |-> FALSE, p |-> << >>]

Some(x) == [some |-> TRUE, p |-> x]

\* storage::list
list(sub_path) ==
  LET start_path == IF sub_path.some THEN join(db_path, sub_path.p) ELSE db_path
      walks == IF is_dir(dirs, start_path) THEN visit_dirs(dirs, files, start_path) ELSE {<< >>}
  IN \* op.b is empty for list(None)
     /\ op' = [name |-> "list", a |-> sub_path.p, b |-> IF sub_path.some THEN <<"S">> ELSE << >>]
     /\ \E acc \in walks : ret' = [NoRet EXCEPT !.raw = acc, !.val = sort(acc)]
     /\ UNCHANGED <<dirs, files, pre, stack, orig, calls>>

\* ------------------------------------------------------------------ search
\* SearchResult
SearchResult(title, is_title_match, preview) ==
  [title |-> title, is_title_match |-> is_title_match, preview |-> preview]

\* The index of the first line whose lowercased text contains kw, 0 if none.
find_line(ls, kw) ==
  IF \E i \in 1..Len(ls) : contains(to_lowercase(ls[i]), kw)
  THEN CHOOSE i \in 1..Len(ls) :
         /\ contains(to_lowercase(ls[i]), kw)
         /\ \A j \in 1..(i - 1) : ~contains(to_lowercase(ls[j]), kw)
  ELSE 0

NoWalk == [results |-> << >>, reads |-> {}]

\* A search that reads every note before it looks at the title.
search_file_eager(f, path, kw) ==
  LET title == title_of(path)
      content == f[path]
      ls == lines(content.text)
      k == find_line(ls, kw)
  IN IF content.ok /\ k > 0
     THEN [results |-> << SearchResult(title, FALSE, Some(trim(ls[k]))) >>, reads |-> {path}]
     ELSE IF contains(to_lowercase(title), kw)
     THEN [results |-> << SearchResult(title, TRUE, None) >>, reads |-> {path}]
     ELSE [results |-> << >>, reads |-> {path}]

\* A search that keeps the preview line untrimmed.
preview_raw(line) == line

\* The preview of a content match: line.trim().to_string().
preview_of(line) == trim(line)

\* The body of walk_and_search's loop for one .md file: the title match
\* first, the content read only when the title does not match.
search_file(f, path, kw) ==
  LET title == title_of(path)
      content == f[path]
      ls == lines(content.text)
      k == find_line(ls, kw)
  IN IF contains(to_lowercase(title), kw)
     THEN [results |-> << SearchResult(title, TRUE, None) >>, reads |-> {}]
     ELSE IF content.ok /\ k > 0
     THEN [results |-> << SearchResult(title, FALSE, Some(preview_of(ls[k]))) >>, reads |-> {path}]
     ELSE [results |-> << >>, reads |-> {path}]

\* walk_and_search: every outcome (results pushed, files read), one for each
\* enumeration order of the directories.
RECURSIVE walk_and_search(_, _, _, _), walk_entries(_, _, _, _)
walk_and_search(d, f, dir, kw) == walk_entries(d, f, read_dir(d, f, dir), kw)

walk_entries(d, f, todo, kw) ==
  IF todo = {} THEN {NoWalk}
  ELSE UNION { LET here == IF is_dir(d, e) THEN walk_and_search(d, f, e, kw)
                           ELSE IF is_md(e[Len(e)]) THEN {search_file(f, e, kw)}
                           ELSE {NoWalk}
               IN {[results |-> h.results \o t.results, reads |-> h.reads \cup t.reads]
                     : h \in here, t \in walk_entries(d, f, todo \ {e}, kw)}
             : e \in todo }

\* storage::search
search(keyword) ==
  LET kw_lower == to_lowercase(keyword)
      walks == IF is_dir(dirs, db_path) THEN walk_and_search(dirs, files, db_path, kw_lower)
               ELSE {NoWalk}
  IN /\ op' = [name |-> "search", a |-> keyword, b |-> << >>]
     /\ \E w \in walks : ret' = [NoRet EXCEPT !.val = w.results, !.raw = w.results, !.reads = w.reads]
     /\ UNCHANGED <<dirs, files, pre, stack, orig, calls>>

\* ------------------------------------------------- the query commands
\* Most files in a tree the query commands are run on.
MaxTreeFiles == 3

\* File names a tree may hold: notes, a file without extension, and the
\* dot-file ".md", which has no extension for Path::extension.
A_MD == <<"a">> \o MD

B_MD == <<"B">> \o MD

PLAIN == <<"a", "b">>

DIR_A == <<"a">>

DIR_B == <<"B">>

CandidateFiles ==
  { db_path \o << A_MD >>, db_path \o << B_MD >>, db_path \o << PLAIN >>,
    db_path \o << DIR_A, A_MD >>, db_path \o << DIR_A, B_MD >>,
    db_path \o << DIR_B, A_MD >>, db_path \o << DIR_A, MD >> }

CandidateDirs == { db_path \o << DIR_A >>, db_path \o << DIR_B >> }

Keywords == { <<"a">>, <<"B">>, <<"A", "b">>, <<"/">>, <<"o">>, << >> }

SubPaths == {None} \cup {Some(c) : c \in Comp}

\* Any tree of at most MaxTreeFiles files below an existing database directory.
InitQuery ==
  /\ \E S \in SUBSET CandidateFiles, E \in SUBSET CandidateDirs :
       /\ Cardinality(S) <= MaxTreeFiles
       /\ files \in [S -> Contents]
       /\ dirs = Prefixes(db_path) \cup E \cup UNION {Prefixes(parent(p)) : p \in S}
  /\ op = NoOp
  /\ pre = [dirs |-> dirs, files |-> files]
  /\ ret = NoRet
  /\ stack = << >>
  /\ orig = NoTree
  /\ calls = 0

\* One process runs one command (main dispatches once and returns), and a
\* query leaves the tree as it found it: a run is one query on one tree.
NextQuery ==
  \/ \E sub_path \in SubPaths : op = NoOp /\ list(sub_path)
  \/ \E keyword \in Keywords : op = NoOp /\ search(keyword)

SpecQuery == InitQuery /\ [][NextQuery]_vars

\* ----------------------------------------------------------- export/import
Running == [NoRet EXCEPT !.kind = "running"]

\* The message of export_folder's NotFound error:
\* format!("Source '{}' not found in database", source_title).
SourceNotFoundMsg(source_title) ==
  <<"S", "o", "u", "r", "c", "e", " ", "'">> \o source_title
    \o <<"'", " ", "n", "o", "t", " ", "f", "o", "u", "n", "d">>

\* The tree below `root`, paths relative to it.
RelTree(d, f, root) ==
  LET rel(p) == SubSeq(p, Len(root) + 1, Len(p))
      under == {p \in DOMAIN f : IsPrefix(root, p)}
  IN [dirs |-> {rel(p) : p \in {q \in d : IsPrefix(root, q)}},
      files |-> {<<rel(p), f[p]>> : p \in under}]

\* The entry of copy_dir_recursive(src, dest): create dest when it is missing,
\* then read the source directory.  Whether both succeed.
copy_enter_ok(d, f, src, dest) ==
  /\ exists(d, f, dest) \/ create_dir_all_ok(f, dest)
  /\ is_dir(d, src)

copy_enter_dirs(d, f, dest) == IF exists(d, f, dest) THEN d ELSE create_dir_all(d, dest)

Frame(src, dest, todo) == [src |-> src, dest |-> dest, todo |-> todo]

\* fs::copy(path, dest_path): whether it succeeds.
fs_copy_ok(d, f, path, dest_path) ==
  /\ is_file(f, path)
  /\ Len(dest_path) <= MaxPathLen
  /\ is_dir(d, parent(dest_path))
  /\ ~is_dir(d, dest_path)

\* The first step of copy_dir_recursive(src, dest) called on an empty stack or
\* from the frame on top of it; an error unwinds every frame (the ? operator).
copy_call(src, dest, below) ==
  IF copy_enter_ok(dirs, files, src, dest)
  THEN /\ dirs' = copy_enter_dirs(dirs, files, dest)
       /\ stack' = below \o << Frame(src, dest, read_dir(dirs', files, src)) >>
       /\ ret' = Running
  ELSE /\ dirs' = dirs
       /\ stack' = << >>
       /\ ret' = OsError

\* storage::export_folder
export_folder(source_title, destination_path) ==
  LET src == IF source_title = << >> THEN db_path ELSE join(db_path, source_title)
      dest == join(<< >>, destination_path)
  IN /\ stack = << >>
     /\ calls < MaxCalls
     /\ calls' = calls + 1
     /\ pre' = Snapshot
     /\ files' = files
     /\ UNCHANGED orig
     /\ IF ~exists(dirs, files, src)
        THEN /\ ret' = ErrRet("NotFound", SourceNotFoundMsg(source_title))
             /\ UNCHANGED <<dirs, stack>>
        ELSE copy_call(src, dest, << >>)

ALL == <<"a", "l", "l">>

DOT == <<".">>

\* Commands::Export in main
export(folder, destination) ==
  LET target == IF folder = ALL \/ folder = DOT THEN << >> ELSE folder
  IN /\ op' = [name |-> "export", a |-> folder, b |-> destination]
     /\ export_folder(target, destination)

\* Commands::Import in main
import(source) ==
  /\ op' = [name |-> "import", a |-> source, b |-> << >>]
  /\ export_folder(<< >>, source)

\* The export that has just returned Ok was one of the whole database to a
\* destination that did not exist or was an empty directory.
WholeExportDone ==
  /\ op.name = "export"
  /\ op.a \in {ALL, DOT}
  /\ LET dest == join(<< >>, op.b)
     IN /\ ~IsPrefix(db_path, dest)
        /\ dest \notin DOMAIN pre.files
        /\ read_dir(pre.dirs, pre.files, dest) = {}

\* One iteration of the loop of copy_dir_recursive in the frame on top of the
\* stack, or its return when the loop is over.
copy_dir_recursive ==
  /\ stack # << >>
  /\ UNCHANGED <<op, pre, calls>>
  /\ LET top == stack[Len(stack)]
         below == SubSeq(stack, 1, Len(stack) - 1)
     IN \/ /\ top.todo = {}
           /\ stack' = below
           /\ ret' = IF below = << >> THEN OkRet ELSE Running
           /\ orig' = IF below = << >> /\ WholeExportDone
                      THEN [set |-> TRUE, dest |-> join(<< >>, op.b),
                            tree |-> RelTree(pre.dirs, pre.files, db_path)]
                      ELSE orig
           /\ UNCHANGED <<dirs, files>>
        \/ \E path \in top.todo :
             LET dest_path == top.dest \o << path[Len(path)] >>
                 rest == below \o << [top EXCEPT !.todo = top.todo \ {path}] >>
             IN /\ UNCHANGED orig
                /\ IF is_dir(dirs, path)
                   THEN /\ files' = files
                        /\ copy_call(path, dest_path, rest)
                   ELSE IF fs_copy_ok(dirs, files, path, dest_path)
                   THEN /\ files' = [p \in DOMAIN files \cup {dest_path} |->
                                       IF p = dest_path THEN files[path] ELSE files[p]]
                        /\ stack' = rest
                        /\ ret' = Running
                        /\ dirs' = dirs
                   ELSE /\ stack' = << >>
                        /\ ret' = OsError
                        /\ UNCHANGED <<dirs, files>>

\* Destinations and sources given on the command line (absolute paths): a
\* directory outside the database, one inside it.
OUTSIDE == <<"/", "o">>

INSIDE == <<"/", "d", "b", "/", "a">>

Destinations == {OUTSIDE, INSIDE}

Folders == {ALL, DOT, <<"a">>, <<"B">>}

\* Most notes in a tree the export commands start from.
MaxExportFiles == 2

ExportFiles == { db_path \o << A_MD >>, db_path \o << DIR_A, B_MD >>, db_path \o << DIR_B, A_MD >> }

\* Any tree of at most MaxExportFiles notes below an existing database directory.
InitExport ==
  /\ \E S \in SUBSET ExportFiles :
       /\ Cardinality(S) <= MaxExportFiles
       /\ files \in [S -> Saved]
       /\ dirs = Prefixes(db_path) \cup UNION {Prefixes(parent(p)) : p \in S}
  /\ op = NoOp
  /\ pre = [dirs |-> dirs, files |-> files]
  /\ ret = NoRet
  /\ stack = << >>
  /\ orig = NoTree
  /\ calls = 0

NextExport ==
  \/ \E folder \in Folders, destination \in Destinations : export(folder, destination)
  \/ \E source \in Destinations : import(source)
  \/ copy_dir_recursive
  \/ \E title \in Titles : stack = << >> /\ remove(title)

SpecExport == InitExport /\ [][NextExport]_vars

\* ---------------------------------------------------------------- claims
\* The paths strictly below the database directory.
Below(p) == IsPrefix(db_path, p) /\ p # db_path

\* The note file of a title as remove addresses it: <base>/<title>.md.
NoteFile(title) == db_path \o Components(title \o MD)

\* The folder of a title as remove addresses it: <base>/<title>.
NoteDir(title) == db_path \o Components(title)

\* C2: remove never removes the base directory: when the base directory
\* existed before a remove call, it exists after it, whatever the title and
\* whichever branch remove took.
C2_RemoveKeepsBase ==
  (op.name = "remove" /\ db_path \in pre.dirs) => db_path \in dirs

\* C3: folder invariant: every directory strictly below the base holds at
\* least one note somewhere in its subtree, in every state reached from the
\* empty base through editor, remove and rename calls.
C3_NoEmptyFolder ==
  \A d \in dirs :
    Below(d) => \E p \in DOMAIN files : IsPrefix(d, p) /\ p # d /\ is_md(p[Len(p)])

\* C4: removing an existing note file deletes exactly that file and the
\* ancestors below the base whose subtree held nothing but the path to it;
\* every other file keeps its path and content, every other directory stays
\* (a directory <base>/<title> beside the file included).
C4_RemoveNoteEffect ==
  (op.name = "remove" /\ NoteFile(op.a) \in DOMAIN pre.files) =>
    LET P == NoteFile(op.a)
        OnlyLeadsToP(d) ==
          \A q \in pre.dirs \cup DOMAIN pre.files : IsPrefix(d, q) => IsPrefix(q, P)
    IN /\ ret.ok
       /\ DOMAIN files = DOMAIN pre.files \ {P}
       /\ \A q \in DOMAIN files : files[q] = pre.files[q]
       /\ dirs \subseteq pre.dirs
       /\ \A d \in pre.dirs :
            d \notin dirs <=> (Below(d) /\ IsPrefix(d, P) /\ OnlyLeadsToP(d))
       /\ NoteDir(op.a) \in pre.dirs => NoteDir(op.a) \in dirs

\* C4 witness: a remove of an existing note pruned a folder and another note stayed.
C4_Witness ==
  /\ op.name = "remove"
  /\ NoteFile(op.a) \in DOMAIN pre.files
  /\ pre.dirs # dirs
  /\ DOMAIN files # {}

\* C5: removing a title with neither a note file nor a folder fails with
\* NotFound, the message contains the title, and the tree is unchanged.
C5_RemoveMissing ==
  (/\ op.name = "remove"
   /\ NoteFile(op.a) \notin DOMAIN pre.files
   /\ NoteDir(op.a) \notin pre.dirs) =>
    /\ ~ret.ok
    /\ ret.kind = "NotFound"
    /\ contains(ret.msg, op.a)
    /\ dirs = pre.dirs
    /\ files = pre.files

\* C5 witness: a remove of a missing, non-empty title in a tree that holds notes.
C5_Witness ==
  /\ op.name = "remove"
  /\ op.a # << >>
  /\ NoteFile(op.a) \notin DOMAIN pre.files
  /\ NoteDir(op.a) \notin pre.dirs
  /\ DOMAIN pre.files # {}
  /\ ~ret.ok

\* C9: moving an existing note to a title whose parent folder does not exist
\* succeeds, creates the folder, puts the content of the source at the
\* destination, removes the source and leaves every other note alone.
C9_MoveIntoNewFolder ==
  (/\ op.name = "rename"
   /\ NoteFile(op.a) \in DOMAIN pre.files
   /\ parent(NoteFile(op.b)) \notin pre.dirs) =>
    LET F == NoteFile(op.a)
        T == NoteFile(op.b)
    IN /\ ret.ok
       /\ \A q \in Prefixes(parent(T)) : q \in dirs
       /\ DOMAIN files = (DOMAIN pre.files \ {F}) \cup {T}
       /\ files[T] = pre.files[F]
       /\ \A q \in DOMAIN files \ {T} : files[q] = pre.files[q]

\* C9 witness: a note was moved into a folder that did not exist, beside another note.
C9_Witness ==
  /\ op.name = "rename"
  /\ op.a # << >>
  /\ op.b # << >>
  /\ NoteFile(op.a) \in DOMAIN pre.files
  /\ parent(NoteFile(op.b)) \notin pre.dirs
  /\ Cardinality(DOMAIN files) >= 2
  /\ ret.ok

\* A note file (a ".md file"): a regular file below the base whose name is a
\* non-empty stem followed by ".md"; the dot-file ".md" is not one.
IsNote(p) ==
  /\ Below(p)
  /\ Len(p[Len(p)]) > 3
  /\ SubSeq(p[Len(p)], Len(p[Len(p)]) - 2, Len(p[Len(p)])) = MD

Notes == {p \in DOMAIN files : IsNote(p)}

\* The title of a note file: its path relative to the base, ".md" cut off.
NoteTitle(p) ==
  LET name == p[Len(p)]
  IN to_string(SubSeq(p, Len(db_path) + 1, Len(p) - 1) \o << SubSeq(name, 1, Len(name) - 3) >>)

\* C6: list(None) returns exactly one title for each .md file below the base
\* and nothing else, in strictly ascending byte order, whatever the order in
\* which the directories were enumerated.
C6_ListExactSorted ==
  (op.name = "list" /\ op.b = << >>) =>
    /\ \A i \in 1..(Len(ret.val) - 1) : StrLess(ret.val[i], ret.val[i + 1])
    /\ \A p \in Notes : Cardinality({i \in 1..Len(ret.val) : NoteFile(ret.val[i]) = p}) = 1
    /\ \A i \in 1..Len(ret.val) : NoteFile(ret.val[i]) \in Notes

\* C6 witness: three notes, one at the top and two in a folder, enumerated in
\* an order that is not the sorted one.
C6_Witness ==
  /\ op.name = "list"
  /\ op.b = << >>
  /\ Len(ret.val) = 3
  /\ ret.raw # ret.val
  /\ Cardinality({p \in Notes : Len(p) > Len(db_path) + 1}) = 2

\* C7: a note whose lowercased title contains the lowercased keyword gets a
\* title-match result and its content is not read during the search.
C7_TitleHitNoRead ==
  op.name = "search" =>
    \A p \in Notes :
      contains(to_lowercase(NoteTitle(p)), to_lowercase(op.a)) =>
        /\ \E i \in 1..Len(ret.val) :
             ret.val[i].title = NoteTitle(p) /\ ret.val[i].is_title_match
        /\ p \notin ret.reads

\* C7 witness: a note with unreadable content and a matching title in a
\* folder got its title-match result, while another note was read.
C7_Witness ==
  /\ op.name = "search"
  /\ op.a # << >>
  /\ \E p \in Notes :
       /\ ~files[p].ok
       /\ Len(p) > Len(db_path) + 1
       /\ contains(to_lowercase(NoteTitle(p)), to_lowercase(op.a))
       /\ \E i \in 1..Len(ret.val) : ret.val[i].title = NoteTitle(p)
  /\ ret.reads # {}

\* The lines of a note's content that contain the lowercased keyword.
MatchingLines(p, kw) ==
  {i \in 1..Len(lines(files[p].text)) : contains(to_lowercase(lines(files[p].text)[i]), kw)}

\* C8: search returns at most one result per note and only results of notes;
\* a title match with no preview when the title contains the keyword,
\* otherwise a content match previewing the trimmed first matching line when
\* the file is readable and has such a line, otherwise nothing; a result is
\* a title match exactly when it has no preview.
C8_SearchReference ==
  op.name = "search" =>
    LET kw == to_lowercase(op.a)
        Hits(p) == {i \in 1..Len(ret.val) : ret.val[i].title = NoteTitle(p)}
    IN /\ \A i \in 1..Len(ret.val) : \E p \in Notes : NoteTitle(p) = ret.val[i].title
       /\ \A i \in 1..Len(ret.val) : ret.val[i].is_title_match <=> ~ret.val[i].preview.some
       /\ \A p \in Notes :
            /\ Cardinality(Hits(p)) <= 1
            /\ IF contains(to_lowercase(NoteTitle(p)), kw)
               THEN \E i \in Hits(p) :
                      ret.val[i].is_title_match /\ ~ret.val[i].preview.some
               ELSE IF files[p].ok /\ MatchingLines(p, kw) # {}
               THEN \E i \in Hits(p) : \E k \in MatchingLines(p, kw) :
                      /\ \A j \in MatchingLines(p, kw) : k <= j
                      /\ ~ret.val[i].is_title_match
                      /\ ret.val[i].preview = Some(trim(lines(files[p].text)[k]))
               ELSE Hits(p) = {}

\* C8 witness: one search gave a title match and a content match whose
\* preview is a line with its surrounding blanks trimmed off.
C8_Witness ==
  /\ op.name = "search"
  /\ \E i, j \in 1..Len(ret.val) :
       /\ ret.val[i].is_title_match
       /\ ret.val[j].preview = Some(<<"a", "B">>)
  /\ \E p \in Notes : \A i \in 1..Len(ret.val) : ret.val[i].title # NoteTitle(p)

\* The height of the directory tree below src in the tree (d, f).
Height(d, src) ==
  LET depths == {Len(q) - Len(src) : q \in {x \in d : IsPrefix(src, x)}}
  IN IF depths = {} THEN 0 ELSE CHOOSE h \in depths : \A k \in depths : k <= h

\* C10: export terminates: the recursion of the copy is bounded by the source
\* tree as it was when export_folder was called (one frame for each level
\* of it), for every destination, one inside the source included; and an
\* export that returned Ok has copied every file and directory of the source.
C10_CopyBounded ==
  /\ stack # << >> =>
       Len(stack) <= 1 + Height(pre.dirs, stack[1].src)
  /\ (op.name \in {"export", "import"} /\ stack = << >> /\ ret.ok /\ ret.kind = "") =>
       LET src == IF op.name = "import" \/ op.a \in {ALL, DOT} THEN db_path
                  ELSE join(db_path, op.a)
           dest == join(<< >>, IF op.name = "import" THEN op.a ELSE op.b)
           old == RelTree(pre.dirs, pre.files, src)
           new == RelTree(dirs, files, dest)
       IN old.dirs \subseteq new.dirs /\ old.files \subseteq new.files

\* C1: export/import round trip: after the whole database was exported to an
\* empty destination D, an import with source D into an existing, empty base
\* directory leaves the base holding exactly the exported tree.
C1_RoundTrip ==
  (/\ op.name = "import"
   /\ stack = << >>
   /\ orig.set
   /\ join(<< >>, op.a) = orig.dest
   /\ db_path \in pre.dirs
   /\ read_dir(pre.dirs, pre.files, db_path) = {}
   /\ RelTree(pre.dirs, pre.files, orig.dest) = orig.tree) =>
    /\ ret.ok
    /\ RelTree(dirs, files, db_path) = orig.tree

====
